---- MODULE Spec2Model ----
(***************************************************************************)
(* Model of the stock_quant_analytic addon: the analytic revaluation       *)
(* allocator (accounting/analytic.py), the journal-entry creation hook     *)
(* (models/account_move.py) and the stock quant extension                  *)
(* (models/stock_quant.py).                                                *)
(*                                                                         *)
(* Representation of values                                                *)
(*   - A monetary amount is an integer number of ticks, one tick being     *)
(*     10^-Prec = 0.0001.  The code holds amounts as Python floats and     *)
(*     converts them with Decimal(float); a float is within 10^-16         *)
(*     (relative) of the decimal it was written as, which can change a     *)
(*     rounding to 4 places only when the exact value lies on a tie.  The  *)
(*     only tie the modelled amounts can hit is in factor * total, and     *)
(*     there the sign of the float error of the total decides (FloatErr).  *)
(*   - A factor is an integer number of 10^-4 units.                       *)
(*   - A quantity is an integer (a float that holds an integer exactly).   *)
(*   - None / a missing dict key is NoneVal, False / an empty record is 0, *)
(*     database ids are 1, 2, ...                                          *)
(***************************************************************************)
EXTENDS Integers, Sequences, FiniteSets, TLC

VARIABLES
    quants,      \* the stock.quant table: a sequence of quant records
    locations,   \* the stock.location table: id -> location record
    ctx,         \* the revaluation flag in the context of the running call
    vals0,       \* the vals dict as the caller passed it (before the call)
    vals,        \* the same dict object after the call
    orig,        \* the list vals0 held under line_ids, as the call leaves it
    op,          \* the operation applied last ("none" before any call)
    err,         \* how the call ended: "none" or the exception class raised
    ret,         \* the value returned: 1 True, 0 False, a product id; or NoneVal
    result,      \* what compute_lines left, when the call reached it
    discovered,  \* the accounts in the order the recordset lists them
    entries,     \* the account.move table: the vals of the entries created
    company,     \* the company of the environment (res.company record)
    created,     \* for each row of quants, the vals create() was called with
    move,        \* the last move values computed: [row, base, vals]
    writes,      \* the product writes in progress, outermost first
    calc         \* the last step of the loop over the groups:
                 \* [account, factor, total, value]

callVars == <<ctx, vals0, vals, orig, err, ret, result, discovered, entries>>
quantVars == <<company, created, move>>
vars == <<quants, locations, op, callVars, quantVars, writes, calc>>

(***************************************************************************)
(* Program constants and bounds                                            *)
(***************************************************************************)
Prec == 4                \* AnalyticQuantRevaluator._prec
CREATE == 0              \* odoo Command.CREATE
OtherCode == CREATE + 1  \* a command code that is not Command.CREATE
NoneVal == -1            \* Python None, or a key the dict does not hold
MaxQuants == 4           \* quants in the table of an allocation
MaxTable == 2            \* quants in the table of a request
MaxLines == 3            \* line commands in a request
MaxRows == 2             \* quants created in a run of the quant life cycle
MaxDepth == 2            \* product writes nested in one another
MaxEntries == 2          \* journal entries created in a run
MaxStock == 2            \* quants in the table of a step of the loop

Scale == 10 ^ Prec       \* ticks per unit, factor units per 1

Abs(x) == IF x < 0 THEN -x ELSE x
Sign(x) == IF x < 0 THEN -1 ELSE IF x > 0 THEN 1 ELSE 0

RECURSIVE SumSeq(_)
SumSeq(s) == IF s = <<>> THEN 0 ELSE Head(s) + SumSeq(Tail(s))

(***************************************************************************)
(* round(x, 4) on a Decimal: quantize under the default context, which     *)
(* rounds half to even.  RoundDiv(n, d, eps) is n/d rounded to an integer; *)
(* eps is the sign of a perturbation of n/d too small to matter except on  *)
(* an exact tie (0 when n/d is exact).                                     *)
(***************************************************************************)
RoundDivPos(n, d, eps, off) ==
    LET q == (n \div d) + off
        r == n % d
    IN  IF 2 * r < d THEN q
        ELSE IF 2 * r > d THEN q + 1
        ELSE IF eps > 0 THEN q + 1
        ELSE IF eps < 0 THEN q
        ELSE IF q % 2 = 0 THEN q ELSE q + 1

RoundDiv(n, d, eps) ==
    IF d > 0 THEN RoundDivPos(n, d, eps, 0) ELSE RoundDivPos(-n, -d, eps, 0)

(***************************************************************************)
(* Decimal(debit_line['debit']): the exact value of the float.  FloatErr   *)
(* is the sign of float(t ticks) minus t ticks, for the amounts that have  *)
(* one; an amount not listed is held exactly by a float (1.0, 100.0).      *)
(***************************************************************************)
FloatErr(t) ==
    CASE t = 1 -> 1      \* 0.0001 is 0.000100000000000000004792...
      [] t = 2 -> 1      \* 0.0002 is 0.000200000000000000009584...
      [] t = 3 -> -1     \* 0.0003 is 0.000299999999999999973718...
      [] t = 4 -> 1      \* 0.0004 is 0.000400000000000000019168...
      [] t = 5 -> 1      \* 0.0005 is 0.000500000000000000010408...
      [] t = 6 -> -1     \* 0.0006 is 0.000599999999999999947437...
      [] OTHER -> 0

(***************************************************************************)
(* stock.quant recordset methods (models/stock_quant.py)                   *)
(***************************************************************************)
OnHandUsages == {"internal", "transit"}

\* Mutant: the product is left out of the search domain.
find_inventory_any_product(qs, locs, product_id) ==
    SelectSeq(qs, LAMBDA q : locs[q.location_id].usage \in OnHandUsages)

find_inventory_by_product(qs, locs, product_id) ==
    SelectSeq(qs, LAMBDA q : /\ q.product_id = product_id
                             /\ locs[q.location_id].usage \in OnHandUsages)

has_any_unset_analytic_account(qs) ==
    \E i \in DOMAIN qs : qs[i].analytic_account_id = 0

\* Mutant: the id of the empty record (no account) is kept.
analytic_account_ids_with_unset(qs) ==
    {qs[i].analytic_account_id : i \in DOMAIN qs}

\* The ids of the accounts the quants reference, without duplicates.
analytic_account_ids(qs) ==
    {qs[i].analytic_account_id : i \in DOMAIN qs} \ {0}

\* Every list that holds each element of S once: list(set(ids)) keeps no order.
Orderings(S) ==
    {s \in [1..Cardinality(S) -> S] : \A i, j \in DOMAIN s : i # j => s[i] # s[j]}

\* The recordsets browse(list(set(ids))) can return.
get_unique_analytic_accounts(qs) == Orderings(analytic_account_ids(qs))

\* account 0 is a falsy account: the quants with no account set.
filter_by_analytic_account(qs, account) ==
    SelectSeq(qs, LAMBDA q : q.analytic_account_id = account)

get_total_quantity(qs) == SumSeq([i \in DOMAIN qs |-> qs[i].quantity])

(***************************************************************************)
(* AnalyticQuantRevaluator (accounting/analytic.py)                        *)
(*                                                                         *)
(* A line command is [code, vals]; vals is the line dict                   *)
(* [product_id, account_id, debit, credit, analytic_account_id].           *)
(* An operator that can raise returns a record with the field err.         *)
(***************************************************************************)
Command_create(v) == [code |-> CREATE, vals |-> v]

\* Mutant: the product of the second line is not compared.
check_lines_first_only(lines) ==
    IF Len(lines) < 2 THEN [err |-> "IndexError", product_id |-> NoneVal]
    ELSE IF lines[1].code # CREATE \/ lines[2].code # CREATE
    THEN [err |-> "ValidationError", product_id |-> NoneVal]
    ELSE IF lines[1].vals.product_id = NoneVal
    THEN [err |-> "ValidationError", product_id |-> NoneVal]
    ELSE [err |-> "none", product_id |-> lines[1].vals.product_id]

\* Mutant: the number of lines is checked here too.
check_lines_counting(lines) ==
    IF Len(lines) # 2 THEN [err |-> "ValidationError", product_id |-> NoneVal]
    ELSE check_lines_first_only(lines)

\* Returns the product id; err is "IndexError" when lines[0] or lines[1]
\* does not exist.
check_lines(lines) ==
    IF Len(lines) < 2 THEN [err |-> "IndexError", product_id |-> NoneVal]
    ELSE LET cmd_line_1 == lines[1]
             cmd_line_2 == lines[2]
             product_id == cmd_line_1.vals.product_id
         IN  IF cmd_line_1.code # CREATE \/ cmd_line_2.code # CREATE
             THEN [err |-> "ValidationError", product_id |-> NoneVal]
             ELSE IF product_id = NoneVal
             THEN [err |-> "ValidationError", product_id |-> NoneVal]
             ELSE IF product_id # cmd_line_2.vals.product_id
             THEN [err |-> "ValidationError", product_id |-> NoneVal]
             ELSE [err |-> "none", product_id |-> product_id]

\* The position (1 or 2) of the first of the two leading lines whose
\* acc_type amount is not 0; 0 when there is none (ValidationError).
get_line_by_type(lines, acc_type) ==
    IF lines[1].vals[acc_type] # 0 THEN 1
    ELSE IF lines[2].vals[acc_type] # 0 THEN 2
    ELSE 0

needs_numeric_correction(total_computed, expected_sum) ==
    LET expected == expected_sum      \* round(expected_sum, 4): whole ticks
        actual   == total_computed    \* round(total_computed, 4)
    IN  actual # expected

compute_actual_total_of(revaluated_lines) ==
    SumSeq([i \in DOMAIN revaluated_lines |-> revaluated_lines[i].vals.debit])

\* Mutant: only the debit line is corrected.
correct_numeric_debit_only(revaluated_lines, actual_computed, expected_sum) ==
    LET difference == expected_sum - actual_computed
        Correct(d, c) ==
            IF d = 0 \/ c = 0
            THEN [err |-> "ValidationError", lines |-> revaluated_lines]
            ELSE [err |-> "none",
                  lines |-> [revaluated_lines EXCEPT
                      ![d].vals.debit = Abs(revaluated_lines[d].vals.debit + difference)]]
    IN  Correct(get_line_by_type(revaluated_lines, "debit"),
                get_line_by_type(revaluated_lines, "credit"))

\* The lines after the in-place correction of the first debit and the
\* first credit line.
correct_numeric(revaluated_lines, actual_computed, expected_sum) ==
    LET difference == expected_sum - actual_computed
        Correct(d, c) ==
            IF d = 0 \/ c = 0
            THEN [err |-> "ValidationError", lines |-> revaluated_lines]
            ELSE [err |-> "none",
                  lines |-> [revaluated_lines EXCEPT
                      ![d].vals.debit = Abs(revaluated_lines[d].vals.debit + difference),
                      ![c].vals.credit = Abs(revaluated_lines[c].vals.credit + difference)]]
    IN  Correct(get_line_by_type(revaluated_lines, "debit"),
                get_line_by_type(revaluated_lines, "credit"))

\* Needs the total quantity to be other than 0.
compute_revaluation_factor(qs, account, total_quantity) ==
    LET aa_quantity == get_total_quantity(filter_by_analytic_account(qs, account))
    IN  RoundDiv(aa_quantity * Scale, total_quantity, 0)

\* round(factor * valuation_total, 4), the total being Decimal(float).
compute_group_value(factor, valuation_total) ==
    LET hi == valuation_total \div Scale
        lo == valuation_total % Scale
    IN  RoundDivPos(factor * lo, Scale, FloatErr(valuation_total) * Sign(factor),
                    factor * hi)

correct_numeric_discrepancy(revaluated_lines, expected_sum) ==
    IF revaluated_lines = <<>>
    THEN [err |-> "none", corrected |-> FALSE, lines |-> revaluated_lines]
    ELSE LET Corrected(r) ==
                 [err |-> r.err, corrected |-> TRUE, lines |-> r.lines]
             Check(total_computed) ==
                 IF needs_numeric_correction(total_computed, expected_sum)
                 THEN Corrected(correct_numeric(revaluated_lines, total_computed,
                                                expected_sum))
                 ELSE [err |-> "none", corrected |-> FALSE,
                       lines |-> revaluated_lines]
         IN  Check(compute_actual_total_of(revaluated_lines))

\* The pair, and the two template dicts as the call leaves them (copied,
\* so unchanged).
create_aml_pair(template_debit, template_credit, account, value) ==
    [debit  |-> [template_debit EXCEPT !.debit = Abs(value), !.credit = 0,
                                       !.analytic_account_id = account],
     credit |-> [template_credit EXCEPT !.debit = 0, !.credit = Abs(value),
                                        !.analytic_account_id = account],
     template_debit  |-> template_debit,
     template_credit |-> template_credit]

\* Mutant: a group whose value is zero gets its pair like any other.
RECURSIVE revaluate_groups_no_skip(_, _, _, _, _, _, _, _)
revaluate_groups_no_skip(analytic_accounts, i, qs, total_quantity, total_value, debit_line, credit_line, revaluated_lines) ==
    IF i > Len(analytic_accounts)
    THEN [lines |-> revaluated_lines, debit_line |-> debit_line,
          credit_line |-> credit_line]
    ELSE LET Add(pair) ==
                 revaluate_groups_no_skip(analytic_accounts, i + 1, qs,
                     total_quantity, total_value,
                     pair.template_debit, pair.template_credit,
                     revaluated_lines \o <<Command_create(pair.debit),
                                            Command_create(pair.credit)>>)
         IN  Add(create_aml_pair(debit_line, credit_line, analytic_accounts[i],
                     compute_group_value(
                         compute_revaluation_factor(qs, analytic_accounts[i],
                                                    total_quantity),
                         total_value)))

\* The body of the loop over analytic_accounts, from position i on: the
\* revaluated lines, and the two template dicts as the loop leaves them.
RECURSIVE revaluate_groups(_, _, _, _, _, _, _, _)
revaluate_groups(analytic_accounts, i, qs, total_quantity, total_value, debit_line, credit_line, revaluated_lines) ==
    IF i > Len(analytic_accounts)
    THEN [lines |-> revaluated_lines, debit_line |-> debit_line,
          credit_line |-> credit_line]
    ELSE LET Add(pair) ==
                 revaluate_groups(analytic_accounts, i + 1, qs,
                     total_quantity, total_value,
                     pair.template_debit, pair.template_credit,
                     revaluated_lines \o <<Command_create(pair.debit),
                                            Command_create(pair.credit)>>)
             Group(account, group_value) ==
                 IF group_value = 0
                 THEN revaluate_groups(analytic_accounts, i + 1, qs,
                          total_quantity, total_value, debit_line, credit_line,
                          revaluated_lines)
                 ELSE Add(create_aml_pair(debit_line, credit_line, account,
                                          group_value))
         IN  Group(analytic_accounts[i],
                   compute_group_value(
                       compute_revaluation_factor(qs, analytic_accounts[i],
                                                  total_quantity),
                       total_value))

\* What a call of compute_lines that raises leaves behind.
Raised(e, lines, q, dv) ==
    [err |-> e, none |-> FALSE, lines |-> <<>>, input |-> lines,
     queried |-> q, divided |-> dv, groups |-> <<>>]

\* Mutant: the unset group is appended after the accounts.
compute_lines_unset_last(lines, table, locs, analytic_account_records) ==
    LET Result(d, c, analytic_accounts, loop, fix) ==
            [err |-> fix.err,
             none |-> (fix.err = "none" /\ fix.lines = <<>>),
             lines |-> IF fix.err = "none" THEN fix.lines ELSE <<>>,
             input |-> [lines EXCEPT
                           ![d].vals = loop.debit_line,
                           ![c].vals = IF c = d THEN loop.debit_line
                                       ELSE loop.credit_line],
             queried |-> TRUE, divided |-> TRUE,
             groups |-> analytic_accounts]
        Corrected(d, c, analytic_accounts, total_value, loop) ==
            Result(d, c, analytic_accounts, loop,
                   correct_numeric_discrepancy(loop.lines, total_value))
        Allocate(d, c, qs, analytic_accounts, total_quantity) ==
            IF total_quantity = 0
            THEN Raised(
                IF get_total_quantity(filter_by_analytic_account(
                       qs, analytic_accounts[1])) = 0
                THEN "InvalidOperation" ELSE "DivisionByZero",
                lines, TRUE, TRUE)
            ELSE Corrected(d, c, analytic_accounts, lines[d].vals.debit,
                     revaluate_groups(analytic_accounts, 1, qs, total_quantity,
                         lines[d].vals.debit, lines[d].vals, lines[c].vals, <<>>))
        Grouped(d, c, qs) ==
            IF Len(analytic_account_records) = 0
            THEN [err |-> "none", none |-> TRUE, lines |-> <<>>,
                  input |-> lines, queried |-> TRUE, divided |-> FALSE,
                  groups |-> <<>>]
            ELSE Allocate(d, c, qs,
                     analytic_account_records \o
                         (IF has_any_unset_analytic_account(qs)
                          THEN <<0>> ELSE <<>>),
                     get_total_quantity(qs))
        Checked(chk, d, c) ==
            IF chk.err # "none" THEN Raised(chk.err, lines, FALSE, FALSE)
            ELSE IF d = 0 \/ c = 0
            THEN Raised("ValidationError", lines, FALSE, FALSE)
            ELSE Grouped(d, c,
                     find_inventory_by_product(table, locs, chk.product_id))
    IN  Checked(check_lines(lines), get_line_by_type(lines, "debit"),
                get_line_by_type(lines, "credit"))

\* analytic_account_records is the list get_unique_analytic_accounts()
\* returns in this call.  none: the call returned None.  input: the lines
\* given, as the call leaves their dicts.  groups: analytic_accounts.
compute_lines(lines, table, locs, analytic_account_records) ==
    LET Result(d, c, analytic_accounts, loop, fix) ==
            [err |-> fix.err,
             none |-> (fix.err = "none" /\ fix.lines = <<>>),
             lines |-> IF fix.err = "none" THEN fix.lines ELSE <<>>,
             input |-> [lines EXCEPT
                           ![d].vals = loop.debit_line,
                           ![c].vals = IF c = d THEN loop.debit_line
                                       ELSE loop.credit_line],
             queried |-> TRUE, divided |-> TRUE,
             groups |-> analytic_accounts]
        Corrected(d, c, analytic_accounts, total_value, loop) ==
            Result(d, c, analytic_accounts, loop,
                   correct_numeric_discrepancy(loop.lines, total_value))
        Allocate(d, c, qs, analytic_accounts, total_quantity) ==
            IF total_quantity = 0
            THEN Raised(
                IF get_total_quantity(filter_by_analytic_account(
                       qs, analytic_accounts[1])) = 0
                THEN "InvalidOperation" ELSE "DivisionByZero",
                lines, TRUE, TRUE)
            ELSE Corrected(d, c, analytic_accounts, lines[d].vals.debit,
                     revaluate_groups(analytic_accounts, 1, qs, total_quantity,
                         lines[d].vals.debit, lines[d].vals, lines[c].vals, <<>>))
        Grouped(d, c, qs) ==
            IF Len(analytic_account_records) = 0
            THEN [err |-> "none", none |-> TRUE, lines |-> <<>>,
                  input |-> lines, queried |-> TRUE, divided |-> FALSE,
                  groups |-> <<>>]
            ELSE Allocate(d, c, qs,
                     (IF has_any_unset_analytic_account(qs)
                      THEN <<0>> ELSE <<>>) \o analytic_account_records,
                     get_total_quantity(qs))
        Checked(chk, d, c) ==
            IF chk.err # "none" THEN Raised(chk.err, lines, FALSE, FALSE)
            ELSE IF d = 0 \/ c = 0
            THEN Raised("ValidationError", lines, FALSE, FALSE)
            ELSE Grouped(d, c,
                     find_inventory_by_product(table, locs, chk.product_id))
    IN  Checked(check_lines(lines), get_line_by_type(lines, "debit"),
                get_line_by_type(lines, "credit"))

\* Mutant: at least two lines are asked for, not exactly two.
revaluate_at_least_two(v, table, locs, analytic_account_records) ==
    LET line_ids == IF v.has_line_ids THEN v.line_ids ELSE <<>>
        Store(new_lines) ==
            IF new_lines.err # "none"
            THEN [err |-> new_lines.err, ret |-> NoneVal,
                  vals |-> [v EXCEPT !.line_ids = new_lines.input],
                  computed |-> new_lines]
            ELSE IF ~new_lines.none
            THEN [err |-> "none", ret |-> 1,
                  vals |-> [v EXCEPT !.line_ids = new_lines.lines],
                  computed |-> new_lines]
            ELSE [err |-> "none", ret |-> 0,
                  vals |-> [v EXCEPT !.line_ids = new_lines.input],
                  computed |-> new_lines]
    IN  IF Len(line_ids) < 2
        THEN [err |-> "ValidationError", ret |-> NoneVal, vals |-> v,
              computed |-> Raised("ValidationError", line_ids, FALSE, FALSE)]
        ELSE Store(compute_lines(line_ids, table, locs, analytic_account_records))

\* Mutant: the computed lines are stored also when there are none
\* (vals['line_ids'] = new_lines or []).
revaluate_always_stores(v, table, locs, analytic_account_records) ==
    LET line_ids == IF v.has_line_ids THEN v.line_ids ELSE <<>>
        Store(new_lines) ==
            IF new_lines.err # "none"
            THEN [err |-> new_lines.err, ret |-> NoneVal,
                  vals |-> [v EXCEPT !.line_ids = new_lines.input],
                  computed |-> new_lines]
            ELSE [err |-> "none", ret |-> IF new_lines.none THEN 0 ELSE 1,
                  vals |-> [v EXCEPT !.line_ids = new_lines.lines],
                  computed |-> new_lines]
    IN  IF Len(line_ids) # 2
        THEN [err |-> "ValidationError", ret |-> NoneVal, vals |-> v,
              computed |-> Raised("ValidationError", line_ids, FALSE, FALSE)]
        ELSE Store(compute_lines(line_ids, table, locs, analytic_account_records))

\* revaluate(vals): vals is [has_line_ids, line_ids]; ret is the value
\* returned, vals the dict as the call leaves it.
revaluate(v, table, locs, analytic_account_records) ==
    LET line_ids == IF v.has_line_ids THEN v.line_ids ELSE <<>>
        Store(new_lines) ==
            IF new_lines.err # "none"
            THEN [err |-> new_lines.err, ret |-> NoneVal,
                  vals |-> [v EXCEPT !.line_ids = new_lines.input],
                  computed |-> new_lines]
            ELSE IF ~new_lines.none
            THEN [err |-> "none", ret |-> 1,
                  vals |-> [v EXCEPT !.line_ids = new_lines.lines],
                  computed |-> new_lines]
            ELSE [err |-> "none", ret |-> 0,
                  vals |-> [v EXCEPT !.line_ids = new_lines.input],
                  computed |-> new_lines]
    IN  IF Len(line_ids) # 2
        THEN [err |-> "ValidationError", ret |-> NoneVal, vals |-> v,
              computed |-> Raised("ValidationError", line_ids, FALSE, FALSE)]
        ELSE Store(compute_lines(line_ids, table, locs, analytic_account_records))

(***************************************************************************)
(* StockQuant creation and inventory moves (models/stock_quant.py)         *)
(*                                                                         *)
(* The create vals are [product_id, location_id, analytic_account_id,      *)
(* has_analytic_tag_ids, analytic_tag_ids]: analytic_account_id is NoneVal *)
(* when the key is missing and 0 when it is False; analytic_tag_ids is the *)
(* list of x2many commands [code, id, len, ids] given under the key.       *)
(***************************************************************************)
Command_set(ids) == [code |-> 6, id |-> 0, len |-> 3, ids |-> ids]
Command_link(id) == [code |-> 4, id |-> id, len |-> 3, ids |-> {}]

set_default_analytic_account(v, locs) ==
    LET default_aa == locs[v.location_id].default_analytic_account_id
    IN  IF default_aa # 0 THEN [v EXCEPT !.analytic_account_id = default_aa]
        ELSE v

\* The third element of a command of three elements is falsy: [] or 0.
should_set_default_analytic_account_tags(v) ==
    /\ v.has_analytic_tag_ids
    /\ v.analytic_tag_ids # <<>>
    /\ v.analytic_tag_ids[1].len = 3
    /\ v.analytic_tag_ids[1].ids = {}

set_default_analytic_account_tags(v, locs) ==
    LET default_aa_tags == locs[v.location_id].default_analytic_tag_ids
    IN  IF default_aa_tags # {}
        THEN [v EXCEPT !.has_analytic_tag_ids = TRUE,
                       !.analytic_tag_ids = <<Command_set(default_aa_tags)>>]
        ELSE v

\* Mutant: the location's account is set whether or not one was given.
set_default_analytic_account_and_tags_overriding(v, locs) ==
    LET v1 == set_default_analytic_account(v, locs)
    IN  IF should_set_default_analytic_account_tags(v1)
        THEN set_default_analytic_account_tags(v1, locs) ELSE v1

set_default_analytic_account_and_tags(v, locs) ==
    LET v1 == IF v.analytic_account_id \in {NoneVal, 0}
              THEN set_default_analytic_account(v, locs) ELSE v
    IN  IF should_set_default_analytic_account_tags(v1)
        THEN set_default_analytic_account_tags(v1, locs) ELSE v1

get_default_analytic_account(comp) == comp.analytic_account_id
get_default_analytic_tags(comp) == comp.analytic_tag_ids

\* The tags a list of x2many commands leaves on a new record.
RECURSIVE TagsOf(_, _)
TagsOf(cmds, tags) ==
    IF cmds = <<>> THEN tags
    ELSE LET c == Head(cmds)
         IN  TagsOf(Tail(cmds),
                    IF c.code = 6 THEN c.ids ELSE tags \cup {c.id})

\* StockQuant.create: the defaults of the location, then the record the ORM
\* creates, a field whose key is missing taking the field's default.
StockQuant_create(v, locs, comp) ==
    LET w == set_default_analytic_account_and_tags(v, locs)
    IN  [product_id |-> w.product_id, location_id |-> w.location_id,
         quantity |-> 0,
         analytic_account_id |->
             IF w.analytic_account_id = NoneVal
             THEN get_default_analytic_account(comp)
             ELSE w.analytic_account_id,
         analytic_tag_ids |->
             IF ~w.has_analytic_tag_ids THEN get_default_analytic_tags(comp)
             ELSE TagsOf(w.analytic_tag_ids, {})]

\* Mutant: the account is written to the move values whether set or not.
get_inventory_move_values_always(quant, res) ==
    LET r1 == [res EXCEPT !.analytic_account_id = quant.analytic_account_id]
    IN  IF quant.analytic_tag_ids # {}
        THEN [r1 EXCEPT !.has_analytic_tag_ids = TRUE,
                        !.analytic_tag_ids = quant.analytic_tag_ids]
        ELSE r1

\* res is what the base implementation returned; its analytic_tag_ids is the
\* id list of the (6, 0, ids) command under the key.
get_inventory_move_values(quant, res) ==
    LET r1 == IF quant.analytic_account_id # 0
              THEN [res EXCEPT !.analytic_account_id = quant.analytic_account_id]
              ELSE res
    IN  IF quant.analytic_tag_ids # {}
        THEN [r1 EXCEPT !.has_analytic_tag_ids = TRUE,
                        !.analytic_tag_ids = quant.analytic_tag_ids]
        ELSE r1

(***************************************************************************)
(* AccountMove.create (models/account_move.py): the vals the entry is      *)
(* created from, unless revaluate raised.                                  *)
(***************************************************************************)
is_revaluation_required(context) == context

\* The context is the value of its key stock_quant_analytic_revaluate_aml_aa;
\* with_context() makes a new one and leaves the one given as it is.
activate_on(context) == TRUE

\* Mutant: every write marks its recordset.
ProductProduct_write_always(has_standard_price, context) == activate_on(context)

\* ProductProduct.write: the context the base write runs under.
ProductProduct_write(has_standard_price, context) ==
    IF has_standard_price THEN activate_on(context) ELSE context

AccountMove_create(v, context, table, locs, analytic_account_records) ==
    IF is_revaluation_required(context)
    THEN LET Created(r) ==
                 [err |-> r.err, vals |-> r.vals, computed |-> r.computed,
                  created |-> IF r.err = "none" THEN <<r.vals>> ELSE <<>>]
         IN  Created(revaluate(v, table, locs, analytic_account_records))
    ELSE [err |-> "none", vals |-> v,
          computed |-> Raised("none", IF v.has_line_ids THEN v.line_ids ELSE <<>>,
                              FALSE, FALSE),
          created |-> <<v>>]

(***************************************************************************)
(* Inputs                                                                  *)
(***************************************************************************)
Products == {1, 2}
Accounts == {1, 2, 3}
Qtys == {-1, 0, 1}
Totals == {1, 2, 3, 1000000}      \* 0.0001, 0.0002, 0.0003, 100.0

LocTable ==
    [l \in {1, 2, 3} |->
        [usage |-> CASE l = 1 -> "internal" [] l = 2 -> "transit"
                     [] OTHER -> "customer",
         default_analytic_account_id |-> 0,
         default_analytic_tag_ids |-> {}]]

Quant(p, l, q, a) ==
    [product_id |-> p, location_id |-> l, quantity |-> q,
     analytic_account_id |-> a, analytic_tag_ids |-> {}]

\* The table is listed in id order; two tables that hold the same quants
\* differ in nothing the code reads, so one listing of each is drawn.
QuantRank(q) ==
    ((((q.product_id * 4) + q.location_id) * 4 + q.analytic_account_id) * 4)
        + q.quantity + 1

Tables(Q, n) ==
    UNION {{t \in [1..k -> Q] :
               \A i \in 1..(k - 1) : QuantRank(t[i]) <= QuantRank(t[i + 1])}
           : k \in 0..n}

AllocQuants == {Quant(1, 1, q, a) : q \in Qtys, a \in {0} \cup Accounts}

\* Product 1 at every location, product 2 in stock.
TableQuants ==
    {Quant(1, 1, 1, a) : a \in 0..2}
    \cup {Quant(1, 2, 1, 0), Quant(1, 2, 1, 2), Quant(1, 3, 1, 2), Quant(2, 1, 1, 2)}

Line(p, acc, d, c) ==
    [product_id |-> p, account_id |-> acc, debit |-> d, credit |-> c,
     analytic_account_id |-> NoneVal]

DebitLine(p, t) == Line(p, 10, t, 0)
CreditLine(p, t) == Line(p, 20, 0, t)

Vals(lines) == [has_line_ids |-> TRUE, line_ids |-> lines]

\* The two-line requests the stock accounting core makes for product 1.
WellFormed ==
    UNION {{Vals(<<Command_create(DebitLine(1, t)), Command_create(CreditLine(1, t))>>),
            Vals(<<Command_create(CreditLine(1, t)), Command_create(DebitLine(1, t))>>)}
           : t \in Totals}

LineCommands ==
    {Command_create(l) :
        l \in {DebitLine(1, 3), CreditLine(1, 3), DebitLine(2, 3), CreditLine(2, 3),
               DebitLine(NoneVal, 3), Line(1, 10, 0, 0)}}
    \cup {[code |-> OtherCode, vals |-> DebitLine(1, 3)]}

Requests ==
    {Vals(l) : l \in UNION {[1..k -> LineCommands] : k \in 0..MaxLines}}
    \cup {[has_line_ids |-> FALSE, line_ids |-> <<>>]}

(***************************************************************************)
(* The state machine: one call on the inputs drawn                         *)
(***************************************************************************)
NoResult == Raised("none", <<>>, FALSE, FALSE)

NoCompany == [analytic_account_id |-> 0, analytic_tag_ids |-> {}]

NoMove ==
    [row |-> 0,
     base |-> [analytic_account_id |-> NoneVal, has_analytic_tag_ids |-> FALSE,
               analytic_tag_ids |-> {}],
     vals |-> [analytic_account_id |-> NoneVal, has_analytic_tag_ids |-> FALSE,
               analytic_tag_ids |-> {}]]

NoCalc == [account |-> NoneVal, factor |-> 0, total |-> 0, value |-> 0]

InitCall ==
    /\ locations = LocTable
    /\ company = NoCompany
    /\ created = [i \in DOMAIN quants |-> <<>>]
    /\ move = NoMove
    /\ ctx = FALSE
    /\ vals = vals0
    /\ orig = IF vals0.has_line_ids THEN vals0.line_ids ELSE <<>>
    /\ op = "none"
    /\ err = "none"
    /\ ret = NoneVal
    /\ result = NoResult
    /\ discovered = <<>>
    /\ entries = <<>>
    /\ writes = <<>>
    /\ calc = NoCalc

Init ==
    /\ quants \in Tables(TableQuants, MaxTable)
    /\ vals0 \in Requests
    /\ InitCall

InitAlloc ==
    /\ quants \in Tables(AllocQuants, MaxQuants)
    /\ vals0 \in WellFormed
    /\ InitCall

\* The lists get_unique_analytic_accounts() can return in a call on lines.
Discoverable(lines) ==
    LET Found(chk) ==
            IF chk.err # "none" THEN {<<>>}
            ELSE get_unique_analytic_accounts(
                     find_inventory_by_product(quants, locations, chk.product_id))
    IN  Found(check_lines(lines))

Lines0 == IF vals0.has_line_ids THEN vals0.line_ids ELSE <<>>

CallCheckLines ==
    /\ op = "none"
    /\ \E r \in {check_lines(Lines0)} :
           /\ op' = "check_lines"
           /\ err' = r.err
           /\ ret' = r.product_id
    /\ UNCHANGED <<quants, locations, ctx, vals0, vals, orig, result,
                   discovered, entries, quantVars, writes, calc>>

CallComputeLines ==
    /\ op = "none"
    /\ \E recs \in Discoverable(Lines0) :
         \E r \in {compute_lines(Lines0, quants, locations, recs)} :
             /\ op' = "compute_lines"
             /\ err' = r.err
             /\ ret' = NoneVal
             /\ result' = r
             /\ orig' = r.input
             /\ vals' = [vals EXCEPT !.line_ids = r.input]
             /\ discovered' = recs
    /\ UNCHANGED <<quants, locations, ctx, vals0, entries, quantVars, writes, calc>>

CallRevaluate ==
    /\ op = "none"
    /\ \E recs \in (IF Len(Lines0) = 2 THEN Discoverable(Lines0) ELSE {<<>>}) :
         \E r \in {revaluate(vals0, quants, locations, recs)} :
             /\ op' = "revaluate"
             /\ err' = r.err
             /\ ret' = r.ret
             /\ result' = r.computed
             /\ orig' = r.computed.input
             /\ vals' = r.vals
             /\ discovered' = recs
    /\ UNCHANGED <<quants, locations, ctx, vals0, entries, quantVars, writes, calc>>

CallCreate ==
    /\ op = "none"
    /\ \E context \in BOOLEAN :
       \E recs \in (IF context /\ Len(Lines0) = 2 THEN Discoverable(Lines0)
                    ELSE {<<>>}) :
         \E r \in {AccountMove_create(vals0, context, quants, locations, recs)} :
             /\ op' = "create"
             /\ ctx' = context
             /\ err' = r.err
             /\ ret' = NoneVal
             /\ result' = r.computed
             /\ orig' = r.computed.input
             /\ vals' = r.vals
             /\ discovered' = recs
             /\ entries' = entries \o r.created
    /\ UNCHANGED <<quants, locations, vals0, quantVars, writes, calc>>

(***************************************************************************)
(* The quant life cycle: quants are created, inventory moves are prepared  *)
(***************************************************************************)
Tags == {1, 2}

Companies ==
    {[analytic_account_id |-> a, analytic_tag_ids |-> t] :
        a \in {0, 1}, t \in {{}, Tags}}

\* Location 1 with and without defaults; the other locations have none.
LocTables ==
    {[LocTable EXCEPT ![1].default_analytic_account_id = a,
                      ![1].default_analytic_tag_ids = t] :
        a \in {0, 2}, t \in {{}, {2}}}

QuantVals ==
    {[product_id |-> 1, location_id |-> 1, analytic_account_id |-> a,
      has_analytic_tag_ids |-> TRUE, analytic_tag_ids |-> c] :
        a \in {NoneVal, 0, 3},
        c \in {<<>>, <<Command_set({})>>, <<Command_set({1})>>, <<Command_link(1)>>}}
    \cup
    {[product_id |-> 1, location_id |-> 1, analytic_account_id |-> a,
      has_analytic_tag_ids |-> FALSE, analytic_tag_ids |-> <<>>] :
        a \in {NoneVal, 0, 3}}

\* What the base implementation returns for the two analytic keys.
BaseMoveValues ==
    {[analytic_account_id |-> NoneVal, has_analytic_tag_ids |-> TRUE,
      analytic_tag_ids |-> {1}],
     [analytic_account_id |-> 1, has_analytic_tag_ids |-> TRUE,
      analytic_tag_ids |-> {}]}
    \cup
    {[analytic_account_id |-> a, has_analytic_tag_ids |-> FALSE, analytic_tag_ids |-> {}] :
        a \in {NoneVal, 1}}

InitQuant ==
    /\ quants = <<>>
    /\ locations \in LocTables
    /\ company \in Companies
    /\ created = <<>>
    /\ move = NoMove
    /\ op = "none"
    /\ ctx = FALSE
    /\ vals0 = Vals(<<>>)
    /\ vals = vals0
    /\ orig = <<>>
    /\ err = "none"
    /\ ret = NoneVal
    /\ result = NoResult
    /\ discovered = <<>>
    /\ entries = <<>>
    /\ writes = <<>>
    /\ calc = NoCalc

QuantCreate ==
    /\ Len(quants) < MaxRows
    /\ \E v \in QuantVals :
         /\ quants' = Append(quants, StockQuant_create(v, locations, company))
         /\ created' = Append(created, v)
    /\ op' = "quant_create"
    /\ UNCHANGED <<locations, company, move, callVars, writes, calc>>

InventoryMoveValues ==
    /\ \E i \in DOMAIN quants : \E res \in BaseMoveValues :
         move' = [row |-> i, base |-> res,
                  vals |-> get_inventory_move_values(quants[i], res)]
    /\ op' = "move_values"
    /\ UNCHANGED <<quants, locations, company, created, callVars, writes, calc>>

NextQuant == QuantCreate \/ InventoryMoveValues

SpecQuant == InitQuant /\ [][NextQuant]_vars

(***************************************************************************)
(* Product writes and the journal entries created under them               *)
(***************************************************************************)
\* Stock the allocator has something to do with.
FlagTables ==
    {<<>>, <<Quant(1, 1, 1, 1)>>, <<Quant(1, 1, 1, 0), Quant(1, 1, 1, 2)>>,
     <<Quant(1, 1, 1, 1), Quant(1, 1, 1, 2)>>}

FlagRequests ==
    WellFormed
    \cup {Vals(<<Command_create(DebitLine(1, 3)), Command_create(CreditLine(1, 3)),
                 Command_create(DebitLine(1, 3))>>),
           Vals(<<Command_create(DebitLine(1, 3))>>)}

InitFlag ==
    /\ quants \in FlagTables
    /\ vals0 \in FlagRequests
    /\ InitCall

\* The context of the code that runs now: that of the innermost write in
\* progress, and the caller's (without the key) when there is none.
Context == IF writes = <<>> THEN FALSE ELSE writes[Len(writes)].context

\* A call of write() on a product; the base write runs until WriteReturn.
ProductWrite ==
    /\ err = "none"
    /\ Len(writes) < MaxDepth
    /\ \E has_standard_price \in BOOLEAN :
         writes' = Append(writes,
             [standard_price |-> has_standard_price,
              context |-> ProductProduct_write(has_standard_price, Context)])
    /\ op' = "write"
    /\ UNCHANGED <<quants, locations, callVars, quantVars, calc>>

WriteReturn ==
    /\ err = "none"
    /\ writes # <<>>
    /\ writes' = SubSeq(writes, 1, Len(writes) - 1)
    /\ op' = "return"
    /\ UNCHANGED <<quants, locations, callVars, quantVars, calc>>

\* AccountMove.create(vals0) by the code that runs now.  An exception ends
\* the request: nothing is done after it.
MoveCreate ==
    /\ err = "none"
    /\ Len(entries) < MaxEntries
    /\ \E recs \in (IF Context /\ Len(Lines0) = 2 THEN Discoverable(Lines0)
                    ELSE {<<>>}) :
       \E r \in {AccountMove_create(vals0, Context, quants, locations, recs)} :
             /\ op' = "create"
             /\ ctx' = Context
             /\ err' = r.err
             /\ ret' = NoneVal
             /\ result' = r.computed
             /\ orig' = r.computed.input
             /\ vals' = r.vals
             /\ discovered' = recs
             /\ entries' = entries \o r.created
    /\ UNCHANGED <<quants, locations, vals0, quantVars, writes, calc>>

NextFlag == ProductWrite \/ WriteReturn \/ MoveCreate

SpecFlag == InitFlag /\ [][NextFlag]_vars

(***************************************************************************)
(* One step of the loop of compute_lines: the factor of a group, then its  *)
(* value                                                                   *)
(***************************************************************************)
\* Quantities whose quotients end in a 5 at the fifth decimal, and a
\* negative one.
RoundQuants == {Quant(1, 1, q, a) : q \in {-1, 1, 3999, 19999}, a \in {0, 1, 2}}

\* Totals a float holds exactly: 0.5 and 100.0.
RoundTotals == {5000, 1000000}

InitRound ==
    /\ quants \in Tables(RoundQuants, MaxStock)
    /\ vals0 \in {Vals(<<Command_create(DebitLine(1, t)),
                         Command_create(CreditLine(1, t))>>) : t \in RoundTotals}
    /\ InitCall

\* The quants compute_lines finds for the request, and the groups it loops
\* over: none when no quant has an account.
StockOf(lines) ==
    find_inventory_by_product(quants, locations, check_lines(lines).product_id)

GroupsOf(qs) ==
    IF analytic_account_ids(qs) = {} THEN {}
    ELSE analytic_account_ids(qs)
         \cup (IF has_any_unset_analytic_account(qs) THEN {0} ELSE {})

\* factor = self._compute_revaluation_factor(quants, account, total_quantity)
ComputeFactor ==
    /\ op = "none"
    /\ get_total_quantity(StockOf(Lines0)) # 0
    /\ \E account \in GroupsOf(StockOf(Lines0)) :
         calc' = [account |-> account,
                  factor |-> compute_revaluation_factor(StockOf(Lines0), account,
                                 get_total_quantity(StockOf(Lines0))),
                  total |-> 0, value |-> 0]
    /\ op' = "factor"
    /\ UNCHANGED <<quants, locations, callVars, quantVars, writes>>

\* group_value = self._compute_group_value(factor, total_value)
ComputeGroupValue ==
    /\ op = "factor"
    /\ \E total_value \in {Lines0[get_line_by_type(Lines0, "debit")].vals.debit} :
         calc' = [calc EXCEPT !.total = total_value,
                              !.value = compute_group_value(calc.factor, total_value)]
    /\ op' = "group_value"
    /\ UNCHANGED <<quants, locations, callVars, quantVars, writes>>

NextRound == ComputeFactor \/ ComputeGroupValue

SpecRound == InitRound /\ [][NextRound]_vars

Next == CallCheckLines \/ CallComputeLines \/ CallRevaluate \/ CallCreate

Spec == Init /\ [][Next]_vars

SpecAlloc == InitAlloc /\ [][Next]_vars

(***************************************************************************)
(* Properties                                                              *)
(***************************************************************************)
RECURSIVE SumOver(_, _)
SumOver(S, f) ==
    IF S = {} THEN 0
    ELSE LET x == CHOOSE y \in S : TRUE IN f[x] + SumOver(S \ {x}, f)

\* The request is two create commands for one product, with a debit and
\* a credit amount.
ValidRequest ==
    /\ Len(Lines0) = 2
    /\ \A i \in 1..2 : Lines0[i].code = CREATE
    /\ Lines0[1].vals.product_id # NoneVal
    /\ Lines0[1].vals.product_id = Lines0[2].vals.product_id
    /\ \E i \in 1..2 : Lines0[i].vals.debit # 0
    /\ \E i \in 1..2 : Lines0[i].vals.credit # 0

RequestProduct == Lines0[1].vals.product_id

RequestTotal ==
    IF Lines0[1].vals.debit # 0 THEN Lines0[1].vals.debit ELSE Lines0[2].vals.debit

\* The rows of the table that are on-hand stock of the request's product.
OnHand ==
    {i \in DOMAIN quants :
        /\ quants[i].product_id = RequestProduct
        /\ locations[quants[i].location_id].usage \in {"internal", "transit"}}

OnHandQty(S) == SumOver(S, [i \in DOMAIN quants |-> quants[i].quantity])

OnHandAccounts == {quants[i].analytic_account_id : i \in OnHand} \ {0}

DebitSum(lines) == SumOver(DOMAIN lines, [i \in DOMAIN lines |-> lines[i].vals.debit])

\* The allocation groups of the call, in processing order.
Groups ==
    IF OnHandAccounts = {} THEN <<>>
    ELSE (IF \E i \in OnHand : quants[i].analytic_account_id = 0
          THEN <<0>> ELSE <<>>) \o discovered

GroupQty(a) == OnHandQty({i \in OnHand : quants[i].analytic_account_id = a})

\* round(round(groupQty / totalQty, 4) * total, 4)
Share(a) ==
    LET hi == RequestTotal \div Scale
        lo == RequestTotal % Scale
        factor == RoundDiv(GroupQty(a) * Scale, OnHandQty(OnHand), 0)
    IN  RoundDivPos(factor * lo, Scale, FloatErr(RequestTotal) * Sign(factor),
                    factor * hi)

Computed == op = "compute_lines" /\ ValidRequest

NoNegativeStock == \A i \in DOMAIN quants : quants[i].quantity >= 0

\* C1: whenever compute_lines returns a result for a valid two-line request,
\* the debit amounts of the emitted lines sum to the original total (both
\* taken to 4 decimal places).  Stated for stock records none of which has a
\* negative quantity: the claim fails there already.
C1_Conservation ==
    (Computed /\ NoNegativeStock /\ err = "none" /\ ~result.none)
        => DebitSum(result.lines) = RequestTotal

\* The first two entries are create commands for one product that is not None.
ValidPair ==
    /\ Lines0[1].code = CREATE /\ Lines0[2].code = CREATE
    /\ Lines0[1].vals.product_id # NoneVal
    /\ Lines0[1].vals.product_id = Lines0[2].vals.product_id

\* C2: on a vals with two lines, a call of revaluate that does not fail
\* returns True and stores the computed pairs under line_ids exactly when
\* compute_lines yields a list that is not empty; otherwise it returns False
\* and vals, its line list and the two line dicts are as before the call.
C2_RevaluateOutcome ==
    (op = "revaluate" /\ Len(Lines0) = 2 /\ err = "none") =>
        LET c == compute_lines(Lines0, quants, locations, discovered)
        IN  /\ ret \in {0, 1}
            /\ (ret = 1 <=> (~c.none /\ c.lines # <<>>))
            /\ (ret = 1 => vals = [vals0 EXCEPT !.line_ids = c.lines])
            /\ (ret = 0 => (vals = vals0 /\ orig = Lines0))

C2_Witness ==
    /\ op = "revaluate" /\ err = "none" /\ ret = 1
    /\ Len(vals.line_ids) = 4
    /\ vals.line_ids # vals0.line_ids

\* C3: revaluate on a vals whose number of lines is not two (no lines or no
\* line_ids key included) fails with ValidationError before any stock query
\* and leaves vals unchanged; a creation under the revaluation flag with
\* such vals is aborted with ValidationError and no entry is created.
C3_TwoLinesRequired ==
    /\ (op = "revaluate" /\ Len(Lines0) # 2)
          => (err = "ValidationError" /\ ~result.queried
              /\ vals = vals0 /\ orig = Lines0)
    /\ (op = "create" /\ ctx /\ Len(Lines0) # 2)
          => (err = "ValidationError" /\ ~result.queried
              /\ vals = vals0 /\ orig = Lines0 /\ entries = <<>>)

C3_Witness ==
    /\ op = "create" /\ ctx /\ Len(Lines0) = 3 /\ ValidPair
    /\ err = "ValidationError" /\ entries = <<>>

\* C4 as claimed: check_lines fails with ValidationError unless the list it
\* is given has exactly 2 entries.
C4_CheckLinesCounts ==
    (op = "check_lines" /\ Len(Lines0) # 2) => err = "ValidationError"

\* C4 as amended: it is revaluate that fails with ValidationError unless
\* there are exactly 2 entries; check_lines reads the first two entries
\* only: given more it answers as on the first two, given fewer it fails
\* with IndexError.
C4_CountCheckedByRevaluate ==
    /\ (op = "revaluate" /\ Len(Lines0) # 2) => err = "ValidationError"
    /\ (op = "check_lines" /\ Len(Lines0) < 2) => err = "IndexError"
    /\ (op = "check_lines" /\ Len(Lines0) > 2) =>
          IF ValidPair
          THEN err = "none" /\ ret = Lines0[1].vals.product_id
          ELSE err = "ValidationError" /\ ret = NoneVal

C4_Witness ==
    /\ op = "check_lines" /\ Len(Lines0) = 3
    /\ err = "none" /\ ret = 1

\* C5: on a list of two entries check_lines returns the product id p exactly
\* when both entries are create commands and both reference the same product
\* p that is not None; otherwise it fails with ValidationError.
C5_CheckLinesProduct ==
    (op = "check_lines" /\ Len(Lines0) = 2) =>
        IF ValidPair
        THEN err = "none" /\ ret = Lines0[1].vals.product_id
        ELSE err = "ValidationError" /\ ret = NoneVal

C5_Witness ==
    /\ op = "check_lines" /\ Len(Lines0) = 2
    /\ Lines0[1].vals.product_id = 2 /\ err = "none" /\ ret = 2

\* C6: when no on-hand stock record of the product carries an analytic
\* account, compute_lines returns None and attempts no division.
C6_ZeroAccountShortCircuit ==
    (Computed /\ \A i \in OnHand : quants[i].analytic_account_id = 0)
        => (err = "none" /\ result.none /\ ~result.divided)

C6_Witness ==
    /\ Computed
    /\ Cardinality(OnHand) >= 2
    /\ \A i \in OnHand : quants[i].analytic_account_id = 0
    /\ OnHandQty(OnHand) = 0
    /\ result.none

\* C7: the emitted pairs are, in order, the groups whose share
\* round(round(groupQty / totalQty, 4) * total, 4) is not zero; a group whose
\* share is zero has no line; when every group is elided the call returns
\* None, and it never returns an empty list.
C7_SmallGroupElision ==
    (Computed /\ err = "none" /\ Groups # <<>>) =>
        LET survivors == SelectSeq(Groups, LAMBDA a : Share(a) # 0)
        IN  /\ Len(result.lines) = 2 * Len(survivors)
            /\ \A k \in DOMAIN survivors :
                 /\ result.lines[2 * k - 1].vals.analytic_account_id = survivors[k]
                 /\ result.lines[2 * k].vals.analytic_account_id = survivors[k]
            /\ (result.none <=> survivors = <<>>)
            /\ (~result.none => result.lines # <<>>)

C7_Witness ==
    /\ Computed /\ err = "none" /\ ~result.none
    /\ \E k \in DOMAIN Groups : Share(Groups[k]) = 0
    /\ Len(result.lines) < 2 * Len(Groups)

\* The rows the result's lines with account a were copied from template t.
LinesOf(a, t) ==
    {i \in DOMAIN result.lines :
        /\ result.lines[i].vals.analytic_account_id = a
        /\ result.lines[i].vals.account_id = t}

\* C8: in a result of compute_lines every account id, the unset (False) id
\* included, is on at most one debit and at most one credit line, and every
\* id on a line is unset or the account of an on-hand stock record of the
\* product.
C8_GroupCompleteness ==
    (Computed /\ err = "none" /\ ~result.none) =>
        /\ \A i \in DOMAIN result.lines :
             result.lines[i].vals.analytic_account_id \in {0} \cup OnHandAccounts
        /\ \A a \in {0} \cup Accounts :
             /\ Cardinality(LinesOf(a, 10)) <= 1
             /\ Cardinality(LinesOf(a, 20)) <= 1
             /\ Cardinality(LinesOf(a, 10) \cup LinesOf(a, 20)) =
                  Cardinality({i \in DOMAIN result.lines :
                      result.lines[i].vals.analytic_account_id = a})

C8_Witness ==
    /\ Computed /\ err = "none" /\ ~result.none
    /\ \E i \in DOMAIN quants \ OnHand :
         quants[i].analytic_account_id \notin {0} \cup OnHandAccounts

\* C9: a call of compute_lines on a two-line request returns a result,
\* returns None or fails with ValidationError; no other failure occurs.
\* Stated for stock records none of which has a negative quantity.
C9_OnlyValidationError ==
    (op = "compute_lines" /\ Len(Lines0) = 2 /\ NoNegativeStock)
        => err \in {"none", "ValidationError"}

\* C10: the move values computed for a quant carry the quant's analytic
\* account when it has one and the quant's analytic tags when it has any,
\* whether they came from defaults or were given; a field the quant has not
\* set is left as the base implementation returned it.
C10_MoveCarriesAnalytics ==
    (op = "move_values") =>
        LET q == quants[move.row]
        IN  /\ (q.analytic_account_id # 0
                  => move.vals.analytic_account_id = q.analytic_account_id)
            /\ (q.analytic_account_id = 0
                  => move.vals.analytic_account_id = move.base.analytic_account_id)
            /\ (q.analytic_tag_ids # {}
                  => (move.vals.has_analytic_tag_ids
                      /\ move.vals.analytic_tag_ids = q.analytic_tag_ids))
            /\ (q.analytic_tag_ids = {}
                  => (move.vals.has_analytic_tag_ids = move.base.has_analytic_tag_ids
                      /\ move.vals.analytic_tag_ids = move.base.analytic_tag_ids))

\* A quant created with neither key given, its account and tags being the
\* company's defaults, and a move that carries them.
C10_Witness ==
    /\ op = "move_values"
    /\ created[move.row].analytic_account_id = NoneVal
    /\ ~created[move.row].has_analytic_tag_ids
    /\ quants[move.row].analytic_account_id = 1
    /\ quants[move.row].analytic_tag_ids = Tags
    /\ move.base.analytic_account_id = NoneVal
    /\ move.vals.analytic_account_id = 1
    /\ move.vals.analytic_tag_ids = Tags

\* The location default account of the location row i was created at, the
\* tags the create values of row i name, and the location's default tags.
LocationAccount(i) == locations[created[i].location_id].default_analytic_account_id

LocationTags(i) == locations[created[i].location_id].default_analytic_tag_ids

GivenTags(i) ==
    IF created[i].has_analytic_tag_ids
    THEN TagsOf(created[i].analytic_tag_ids, {}) ELSE {}

\* C11 as stated: an account given in the create values is kept; when none
\* is given (key missing or false) the quant has the location's default
\* account if there is one and the company's default account otherwise;
\* product and location are as given.
C11_AccountPrecedenceAsStated ==
    \A i \in DOMAIN quants :
        /\ (created[i].analytic_account_id \notin {NoneVal, 0}
              => quants[i].analytic_account_id = created[i].analytic_account_id)
        /\ (created[i].analytic_account_id \in {NoneVal, 0} /\ LocationAccount(i) # 0
              => quants[i].analytic_account_id = LocationAccount(i))
        /\ (created[i].analytic_account_id \in {NoneVal, 0} /\ LocationAccount(i) = 0
              => quants[i].analytic_account_id = company.analytic_account_id)
        /\ quants[i].product_id = created[i].product_id
        /\ quants[i].location_id = created[i].location_id

\* C11: an account given in the create values is kept; with the key missing
\* or false the quant has the location's default account if there is one;
\* failing that, the company's default account when the key is missing and
\* no account when the key is false.  The defaulting of the account leaves
\* the other keys of the create values as they were.
C11_AccountPrecedence ==
    \A i \in DOMAIN quants :
        /\ (created[i].analytic_account_id \notin {NoneVal, 0}
              => quants[i].analytic_account_id = created[i].analytic_account_id)
        /\ (created[i].analytic_account_id \in {NoneVal, 0} /\ LocationAccount(i) # 0
              => quants[i].analytic_account_id = LocationAccount(i))
        /\ (created[i].analytic_account_id = NoneVal /\ LocationAccount(i) = 0
              => quants[i].analytic_account_id = company.analytic_account_id)
        /\ (created[i].analytic_account_id = 0 /\ LocationAccount(i) = 0
              => quants[i].analytic_account_id = 0)
        /\ quants[i].product_id = created[i].product_id
        /\ quants[i].location_id = created[i].location_id
        /\ [set_default_analytic_account(created[i], locations)
               EXCEPT !.analytic_account_id = created[i].analytic_account_id]
             = created[i]

\* A first quant whose given account was kept although the location has a
\* default, and a second one, given none, that took the location's.
C11_Witness ==
    /\ Len(quants) = 2
    /\ LocationAccount(1) = 2
    /\ created[1].analytic_account_id = 3
    /\ quants[1].analytic_account_id = 3
    /\ created[2].analytic_account_id = NoneVal
    /\ quants[2].analytic_account_id = 2

\* C12: the location's default tags are on a created quant when the create
\* values name no tag (key missing, or present with an empty tag list), and
\* the tags named are on it when they name at least one.
C12_LocationDefaultTags ==
    \A i \in DOMAIN quants :
        /\ (GivenTags(i) = {} /\ LocationTags(i) # {}
              => quants[i].analytic_tag_ids = LocationTags(i))
        /\ (GivenTags(i) # {}
              => quants[i].analytic_tag_ids = GivenTags(i))

\* The groups that get a pair, the amounts of their pairs as the loop emits
\* them, and what the emitted debit amounts add up to.
Survivors == SelectSeq(Groups, LAMBDA a : Share(a) # 0)

Emitted == [k \in DOMAIN Survivors |-> Abs(Share(Survivors[k]))]

EmittedSum == SumSeq(Emitted)

CorrectionDue == Survivors # <<>> /\ EmittedSum # RequestTotal

\* The amounts of pair k of the result are v on the debit and on the credit
\* side.
PairAmounts(k, v) ==
    /\ result.lines[2 * k - 1].vals.debit = v
    /\ result.lines[2 * k].vals.credit = v

C14_PairShape ==
    (Computed /\ NoNegativeStock /\ err = "none" /\ ~result.none) =>
        /\ Len(result.lines) % 2 = 0
        /\ \A i \in DOMAIN result.lines : result.lines[i].code = CREATE
        /\ \A k \in 1..(Len(result.lines) \div 2) :
             LET debit == result.lines[2 * k - 1].vals
                 credit == result.lines[2 * k].vals
             IN  /\ debit.debit > 0 /\ debit.credit = 0
                 /\ credit.credit = debit.debit /\ credit.debit = 0
                 /\ debit.analytic_account_id = credit.analytic_account_id

\* The analytic accounts of the pairs of the result, in order.
PairAccounts ==
    [k \in 1..(Len(result.lines) \div 2) |->
        result.lines[2 * k - 1].vals.analytic_account_id]

\* The position of account a in the list the quants returned.
Discovery(a) == CHOOSE k \in DOMAIN discovered : discovered[k] = a

UnsetOnHand == \E i \in OnHand : quants[i].analytic_account_id = 0

\* C15: with stock records with and without account, the pair of the unset
\* group, if it has one, is the first pair of the result and is the one
\* corrected; the pairs of the accounts follow in the order in which
\* get_unique_analytic_accounts returned the accounts; there is a pair of
\* the unset group only if some stock record has no account.
C15_OutputOrdering ==
    (Computed /\ err = "none" /\ ~result.none) =>
        /\ (UnsetOnHand /\ Share(0) # 0
              => (PairAccounts[1] = 0
                  /\ (CorrectionDue =>
                        PairAmounts(1, Abs(Abs(Share(0))
                                           + (RequestTotal - EmittedSum))))))
        /\ \A k \in DOMAIN PairAccounts :
             PairAccounts[k] = 0 => (k = 1 /\ UnsetOnHand)
        /\ \A j, k \in DOMAIN PairAccounts :
             (j < k /\ PairAccounts[j] # 0)
                => (/\ PairAccounts[k] # 0
                    /\ PairAccounts[j] \in OnHandAccounts
                    /\ PairAccounts[k] \in OnHandAccounts
                    /\ Discovery(PairAccounts[j]) < Discovery(PairAccounts[k]))

\* Stock without account and on two accounts, returned as 2 then 1: three
\* pairs, unset first, then 2, then 1.
C15_Witness ==
    /\ Computed /\ err = "none" /\ ~result.none
    /\ UnsetOnHand
    /\ discovered = <<2, 1>>
    /\ PairAccounts = <<0, 2, 1>>

\* Some write in progress was called with standard_price in its values.
InsidePriceWrite == \E k \in DOMAIN writes : writes[k].standard_price

\* C16: a journal-entry creation runs the allocator exactly when it is made
\* inside a product write whose values include standard_price: then its
\* outcome is that of revaluate on its values, and otherwise (no write in
\* progress, the write has returned, or no write in progress names
\* standard_price) it sees the flag false and the entry is created from the
\* values as given.  Marking the recordset of a write does not change the
\* flag the writes around it see.
C16_FlagScoping ==
    /\ \A k \in DOMAIN writes :
         writes[k].context <=> (\E j \in 1..k : writes[j].standard_price)
    /\ (op = "create" /\ ~InsidePriceWrite) =>
         (/\ ~ctx /\ err = "none"
          /\ vals = vals0
          /\ entries # <<>> /\ entries[Len(entries)] = vals0)
    /\ (op = "create" /\ InsidePriceWrite) =>
         (/\ ctx
          /\ LET r == revaluate(vals0, quants, locations, discovered)
             IN  /\ err = r.err
                 /\ vals = r.vals
                 /\ (r.err = "none" => entries[Len(entries)] = r.vals)
                 /\ (Len(Lines0) # 2 => err = "ValidationError"))

\* An entry created with revaluated lines inside a price write, the write
\* returned, and the next entry created from the values as given.
C16_Witness ==
    /\ op = "create"
    /\ writes = <<>>
    /\ Len(entries) = 2
    /\ entries[1] # vals0
    /\ Len(entries[1].line_ids) = 4
    /\ entries[2] = vals0

\* n / d rounded to a whole number, a half going away from zero (d > 0).
RoundHalfAway(n, d) == Sign(n) * ((2 * Abs(n) + d) \div (2 * d))

\* The quantity of the group of calc.account and the total quantity.
StepQty == get_total_quantity(filter_by_analytic_account(StockOf(Lines0), calc.account))

StepTotalQty == get_total_quantity(StockOf(Lines0))

\* C17: the factor is quantity / total quantity and the value is factor *
\* total, each rounded to 4 decimal places with a half going away from
\* zero: a quotient of 0.00005 gives 0.0001, one of 0.00025 gives 0.0003.
\* Stated for stock records none of which has a negative quantity.
C17_HalfAwayFromZero ==
    (op \in {"factor", "group_value"} /\ NoNegativeStock) =>
        /\ calc.factor = RoundHalfAway(StepQty * Scale, StepTotalQty)
        /\ (op = "group_value"
              => calc.value = RoundHalfAway(calc.factor * calc.total, Scale))

\* C18: the factor computed for a group of the loop, an account's or the
\* unset one, is at least 0 and at most 1.
C18_FactorRange ==
    (op \in {"factor", "group_value"}) => (0 <= calc.factor /\ calc.factor <= Scale)

====
